---- MODULE Spec2Model ----
(***************************************************************************)
(* Model of the API telemetry store of the Healthcare Database Assistant:  *)
(* src/src/storage/api_storage.py (APIStorageManager) and the handlers of  *)
(* src/api_server.py that call it.                                         *)
(*                                                                         *)
(* Time.  datetime.now() is the variable `now`, counted in ticks.  The     *)
(* code stores instants as ISO-8601 strings and compares them as strings,  *)
(* which orders them as the instants themselves, so an instant is modelled *)
(* by its tick number.  The calendar is scaled down (TicksPerMinute ticks  *)
(* to the minute, MinutesPerHour minutes to the hour, HoursPerDay hours to *)
(* the day): the code only compares instants and takes their (date, hour). *)
(*                                                                         *)
(* Tables.  A table whose rows the code reads in rowid order               *)
(* (api_sessions, api_rate_limits) is a sequence in insertion order; the   *)
(* other tables are sets of rows.  Columns no operation reads back         *)
(* (user_query, headers, user_agent, sizes, processing times) are left     *)
(* out of the rows.                                                        *)
(***************************************************************************)
EXTENDS Integers, Sequences, FiniteSets, TLC

\* ---------------------------------------------------------------- bounds
TicksPerMinute == 2
MinutesPerHour == 1
HoursPerDay    == 2
MaxLimit       == 3
MaxCalls       == 4
MaxDays        == 1
MaxFaults      == 1
MaxRequests    == 2
MaxTtl         == 2
MaxTime        == 5
MaxSweeps      == 1
MaxEnds        == 2
MaxSweepDays   == 2

\* ------------------------------------------------------ program constants
WindowMinutes == 1

Minute  == TicksPerMinute
Hour    == MinutesPerHour * Minute
Day     == HoursPerDay * Hour

Ips       == {"ip1", "ip2"}
Endpoints == {"/chat"}
Limits    == 1..MaxLimit
Sessions  == {"s1", "s2"}
CacheKeys == {"k1"}
Payloads  == {"doc1", "doc2"}
Ttls      == 0..MaxTtl
DaysToKeep == 0..MaxDays
Faults    == {"ok", "db", "file"}

\* absent values: None as a returned value, a missing file, a NULL instant
None   == "None"
NoFile == [absent |-> TRUE]
NoTime == 0 - 1

VARIABLES
    now,                \* datetime.now()
    faults,             \* storage faults injected so far
    served,             \* /chat requests accepted so far
    sweeps,             \* cleanup_old_data calls so far
    ends,               \* end_session calls so far
    requests_per_minute,\* the limit passed to check_rate_limit
    api_requests, api_responses, api_sessions, api_analytics, api_rate_limits,
    request_files, response_files, session_files, cache_files,
    pending,            \* /chat handlers waiting for the agent
    agent_sessions,     \* the keys of the server's agent_sessions dict
    rl_log,             \* history: the check_rate_limit calls and their results
    ever_requests,      \* history: request ids committed to api_requests
    session_log,        \* history: per session, requests and outcomes recorded
    cache_log,          \* history: per key, the last successful cache_response
    last                \* history: the operation of the last step and its result

tables == <<api_requests, api_responses, api_sessions, api_analytics, api_rate_limits>>
files  == <<request_files, response_files, session_files, cache_files>>
chatst == <<served, pending, agent_sessions, ever_requests, session_log>>
vars == <<now, faults, sweeps, ends, requests_per_minute, tables, files, chatst,
          rl_log, cache_log, last>>

\* ---------------------------------------------------------------- helpers
RECURSIVE SumCounts(_)
SumCounts(rows) ==
    IF rows = <<>> THEN 0
    ELSE Head(rows).request_count + SumCounts(Tail(rows))

\* a fault may be injected while the fault budget lasts
MayFail(f) == f # "ok" => faults < MaxFaults
Charge(f)  == IF f = "ok" THEN faults ELSE faults + 1

\* The operations of APIStorageManager whose storage statements all lie
\* inside the operation's own  try: ... except Exception as e: ... return
Guarded ==
    {"log_api_request", "log_api_response", "create_or_update_session",
     "update_session_result", "end_session", "update_analytics",
     "check_rate_limit", "cache_response", "get_cached_response",
     "cleanup_old_data"}

\* handles with no operation catching its storage failures
handles_none(op) == FALSE

\* the operation catches the exception of a failing storage statement
handles(op) == op \in Guarded

\* the exception of fault f reaches the caller of operation op
raises(op, f) == f # "ok" /\ ~handles(op)

\* ----------------------------------------------------------- rate limiter
\* window_start = now - timedelta(minutes=1)
WindowStart == now - WindowMinutes * Minute

\* DELETE FROM api_rate_limits WHERE window_end < window_start
rl_after_delete ==
    SelectSeq(api_rate_limits, LAMBDA r : ~(r.window_end < WindowStart))

\* rl_matching without the window_start >= ? condition
rl_matching_all_rows(ip, endpoint) ==
    SelectSeq(rl_after_delete,
              LAMBDA r : r.ip_address = ip /\ r.endpoint = endpoint)

\* rows WHERE ip_address = ? AND endpoint = ? AND window_start >= ?
rl_matching(ip, endpoint) ==
    SelectSeq(rl_after_delete,
              LAMBDA r : /\ r.ip_address = ip
                         /\ r.endpoint = endpoint
                         /\ r.window_start >= WindowStart)

\* current_requests summing the rows of every key in the window
current_requests_any_key(ip, endpoint) ==
    SumCounts(SelectSeq(rl_after_delete,
                        LAMBDA r : r.window_start >= WindowStart))

\* SELECT SUM(request_count) ... ; result[0] if result[0] else 0
current_requests(ip, endpoint) == SumCounts(rl_matching(ip, endpoint))

\* COALESCE((SELECT request_count ... ), 0) + 1 : a scalar subquery yields
\* the first row of its result, which SQLite produces in rowid order
rl_new_count(ip, endpoint) ==
    LET m == rl_matching(ip, endpoint)
    IN  (IF Len(m) > 0 THEN m[1].request_count ELSE 0) + 1

\* INSERT OR REPLACE: the table has no UNIQUE constraint besides the
\* autoincrement id, which is not supplied, so the statement always inserts
rl_insert(ip, endpoint) ==
    Append(rl_after_delete,
           [ip_address    |-> ip,
            endpoint      |-> endpoint,
            request_count |-> rl_new_count(ip, endpoint),
            window_start  |-> now,
            window_end    |-> now + WindowMinutes * Minute,
            is_blocked    |-> FALSE])

\* rl_block adding one to request_count as well
rl_block_counting(ip, endpoint) ==
    [i \in 1..Len(rl_after_delete) |->
        LET r == rl_after_delete[i]
        IN  IF r.ip_address = ip /\ r.endpoint = endpoint
            THEN [r EXCEPT !.is_blocked = TRUE, !.request_count = @ + 1]
            ELSE r]

\* UPDATE api_rate_limits SET is_blocked = TRUE WHERE ip_address = ? AND endpoint = ?
rl_block(ip, endpoint) ==
    [i \in 1..Len(rl_after_delete) |->
        LET r == rl_after_delete[i]
        IN  IF r.ip_address = ip /\ r.endpoint = endpoint
            THEN [r EXCEPT !.is_blocked = TRUE]
            ELSE r]

is_allowed(ip, endpoint, limit) == current_requests(ip, endpoint) < limit

\* the (is_allowed, info) pair returned to the caller, as a history entry
rl_result(ip, endpoint, limit, f) ==
    IF f = "db"
    THEN \* except: return True, {}
         [ip_address |-> ip, endpoint |-> endpoint, limit |-> limit,
          time |-> now, allowed |-> TRUE, error |-> TRUE,
          current_requests |-> 0, blocked |-> FALSE, request_count |-> 0]
    ELSE [ip_address |-> ip, endpoint |-> endpoint, limit |-> limit,
          time |-> now, allowed |-> is_allowed(ip, endpoint, limit),
          error |-> FALSE,
          current_requests |->
              current_requests(ip, endpoint)
              + (IF is_allowed(ip, endpoint, limit) THEN 1 ELSE 0),
          blocked |-> ~is_allowed(ip, endpoint, limit),
          \* the request_count of the row this call inserted (0: none)
          request_count |->
              IF is_allowed(ip, endpoint, limit)
              THEN rl_new_count(ip, endpoint) ELSE 0]

check_rate_limit(ip, endpoint, limit, f) ==
    /\ Len(rl_log) < MaxCalls
    /\ f \in {"ok", "db"}
    /\ MayFail(f)
    /\ faults' = Charge(f)
    /\ api_rate_limits' =
           IF f = "db" THEN api_rate_limits
           ELSE IF is_allowed(ip, endpoint, limit)
                THEN rl_insert(ip, endpoint)
                ELSE rl_block(ip, endpoint)
    /\ rl_log' = Append(rl_log, rl_result(ip, endpoint, limit, f))
    /\ last' = [op |-> "check_rate_limit",
                raised |-> raises("check_rate_limit", f)]
    /\ UNCHANGED <<now, sweeps, ends, requests_per_minute, api_requests,
                   api_responses, api_sessions, api_analytics, files, chatst,
                   cache_log>>

\* ------------------------------------------------------ structured store
\* log_api_request: the INSERT is committed before the snapshot file is
\* written; the generated request_id is returned on success and on failure
log_api_request(request_id, session_id, f) ==
    [api_requests |->
        IF f = "db" THEN api_requests
        ELSE api_requests \cup {[request_id |-> request_id,
                                 session_id |-> session_id,
                                 timestamp  |-> now]},
     request_files |->
        IF f = "ok" THEN request_files \cup {[name |-> request_id, mtime |-> now]}
        ELSE request_files,
     result |-> request_id]

\* log_api_response: same shape; request_id is stored as given (SQLite does
\* not enforce the FOREIGN KEY clause unless PRAGMA foreign_keys is set)
log_api_response(response_id, request_id, session_id, success, f) ==
    [api_responses |->
        IF f = "db" THEN api_responses
        ELSE api_responses \cup {[response_id |-> response_id,
                                  request_id  |-> request_id,
                                  session_id  |-> session_id,
                                  timestamp   |-> now,
                                  success     |-> success]},
     response_files |->
        IF f = "ok" THEN response_files \cup {[name |-> response_id, mtime |-> now]}
        ELSE response_files,
     result |-> response_id]

\* session_exists finding no row, whatever the table holds
session_exists_never(session_id) == FALSE

\* SELECT id FROM api_sessions WHERE session_id = ?
session_exists(session_id) ==
    \E i \in 1..Len(api_sessions) : api_sessions[i].session_id = session_id

\* UPDATE api_sessions SET last_activity = ?, total_requests = total_requests + 1
session_touch(session_id) ==
    [i \in 1..Len(api_sessions) |->
        IF api_sessions[i].session_id = session_id
        THEN [api_sessions[i] EXCEPT !.last_activity = now,
                                     !.total_requests = @ + 1]
        ELSE api_sessions[i]]

\* INSERT INTO api_sessions (session_id, created_at, last_activity, ...):
\* the counters take their column defaults (0) and is_active its default TRUE
session_insert(session_id) ==
    Append(api_sessions,
           [session_id          |-> session_id,
            created_at          |-> now,
            last_activity       |-> now,
            total_requests      |-> 0,
            successful_requests |-> 0,
            failed_requests     |-> 0,
            is_active           |-> TRUE,
            ended_at            |-> NoTime])

\* create_or_update_session: in the insert branch the snapshot file is
\* written before conn.commit(), so a failed write leaves the row uncommitted
create_or_update_session(session_id, f) ==
    IF f = "db"
    THEN [api_sessions |-> api_sessions, session_files |-> session_files,
          result |-> FALSE]
    ELSE IF session_exists(session_id)
    THEN [api_sessions |-> session_touch(session_id),
          session_files |-> session_files, result |-> TRUE]
    ELSE IF f = "file"
    THEN [api_sessions |-> api_sessions, session_files |-> session_files,
          result |-> FALSE]
    ELSE [api_sessions |-> session_insert(session_id),
          session_files |->
              [session_files EXCEPT ![session_id] =
                  [created_at |-> now, ended_at |-> NoTime, mtime |-> now]],
          result |-> TRUE]

\* update_session_result, applied to the rows `rows` of api_sessions
update_session_result(rows, session_id, success, f) ==
    IF f = "db" THEN rows
    ELSE [i \in 1..Len(rows) |->
            IF rows[i].session_id = session_id
            THEN IF success
                 THEN [rows[i] EXCEPT !.successful_requests = @ + 1]
                 ELSE [rows[i] EXCEPT !.failed_requests = @ + 1]
            ELSE rows[i]]

\* ------------------------------------------------------------- analytics
\* dt.strftime('%Y-%m-%d') / date(timestamp)
DateOf(t) == t \div Day
\* dt.hour / strftime('%H', timestamp)
HourOf(t) == (t \div Hour) % HoursPerDay

\* InHour without the strftime('%H', timestamp) = ? condition
InDate(rows, date, hour) == {r \in rows : DateOf(r.timestamp) = date}

\* rows WHERE date(timestamp) = ? AND strftime('%H', timestamp) = ?
InHour(rows, date, hour) ==
    {r \in rows : DateOf(r.timestamp) = date /\ HourOf(r.timestamp) = hour}

\* the two SELECTs of update_analytics over the given tables
aggregate(responses, requests, date, hour) ==
    [date                |-> date,
     hour                |-> hour,
     total_requests      |-> Cardinality(InHour(responses, date, hour)),
     successful_requests |->
         Cardinality({r \in InHour(responses, date, hour) : r.success}),
     failed_requests     |->
         Cardinality({r \in InHour(responses, date, hour) : ~r.success}),
     unique_sessions     |->
         Cardinality({r.session_id : r \in InHour(requests, date, hour)})]

\* the buckets stored for a (date, hour)
BucketsOf(analytics, date, hour) ==
    {b \in analytics : b.date = date /\ b.hour = hour}

\* upsert_bucket adding the new counts to the bucket already stored
upsert_bucket_accumulate(analytics, bucket) ==
    (analytics \ BucketsOf(analytics, bucket.date, bucket.hour))
    \cup {[bucket EXCEPT !.total_requests =
               @ + Cardinality(BucketsOf(analytics, bucket.date, bucket.hour))]}

\* INSERT OR REPLACE INTO api_analytics under UNIQUE(date, hour): the row of
\* the same (date, hour), if any, is replaced
upsert_bucket(analytics, bucket) ==
    (analytics \ BucketsOf(analytics, bucket.date, bucket.hour))
    \cup {bucket}

\* update_analytics(timestamp), as the chat handler runs it on the tables
\* it has just written
update_analytics(responses, requests, timestamp, f) ==
    IF f = "db" THEN api_analytics
    ELSE upsert_bucket(api_analytics,
                       aggregate(responses, requests,
                                 DateOf(timestamp), HourOf(timestamp)))

\* update_analytics(timestamp) called on its own, for an instant up to now
update_analytics_call(timestamp, f) ==
    /\ f \in {"ok", "db"}
    /\ MayFail(f)
    /\ faults' = Charge(f)
    /\ api_analytics' =
           update_analytics(api_responses, api_requests, timestamp, f)
    /\ last' = [op |-> "update_analytics",
                date |-> DateOf(timestamp), hour |-> HourOf(timestamp),
                error |-> (f = "db"),
                \* the call repeats the call of the step before, for the
                \* same hour: no record was written in between
                repeat |-> /\ last.op = "update_analytics"
                           /\ ~last.error
                           /\ last.date = DateOf(timestamp)
                           /\ last.hour = HourOf(timestamp),
                \* the call changed the table
                changed |-> update_analytics(api_responses, api_requests,
                                             timestamp, f) # api_analytics,
                raised |-> raises("update_analytics", f)]
    /\ UNCHANGED <<now, sweeps, ends, requests_per_minute, api_requests,
                   api_responses, api_sessions, api_rate_limits, files,
                   chatst, rl_log, cache_log>>

\* --------------------------------------------------------- /chat handler
\* str(uuid.uuid4()): a value no earlier call produced.  Requests are
\* numbered as they arrive; the one response of a request takes its number.
NewRequestId == served + 1
NewResponseId(request_id) == <<"response", request_id>>

NFaults(fs) == Cardinality({i \in DOMAIN fs : fs[i] # "ok"})
MayFailAll(fs) == faults + NFaults(fs) <= MaxFaults

\* chat, up to the call of the agent: log_api_request, then
\* create_or_update_session; the handler then awaits the agent
chat_request(session_id, f1, f2) ==
    LET rq == log_api_request(NewRequestId, session_id, f1)
        se == create_or_update_session(session_id, f2)
    IN  /\ served < MaxRequests
        /\ f2 = "file" => ~session_exists(session_id)
        /\ MayFailAll(<<f1, f2>>)
        /\ faults' = faults + NFaults(<<f1, f2>>)
        /\ served' = served + 1
        /\ api_requests' = rq.api_requests
        /\ request_files' = rq.request_files
        /\ api_sessions' = se.api_sessions
        /\ session_files' = se.session_files
        /\ pending' = pending \cup
               {[request_id |-> rq.result, session_id |-> session_id]}
        \* if session_id not in agent_sessions: agent_sessions[session_id] = {...}
        /\ agent_sessions' = agent_sessions \cup {session_id}
        /\ ever_requests' =
               IF f1 = "db" THEN ever_requests
               ELSE ever_requests \cup {rq.result}
        /\ session_log' =
               IF f1 = "db" THEN session_log
               ELSE [session_log EXCEPT ![session_id].requests = @ + 1]
        /\ last' = [op |-> "chat_request", session_id |-> session_id,
                    request_id |-> rq.result, request_fault |-> f1,
                    session_fault |-> f2, session_ok |-> se.result,
                    raised |-> \/ raises("log_api_request", f1)
                               \/ raises("create_or_update_session", f2)]
        /\ UNCHANGED <<now, sweeps, ends, requests_per_minute, api_responses,
                       api_analytics, api_rate_limits, response_files,
                       cache_files, rl_log, cache_log>>

\* what the handler records once the outcome of request p is known:
\* log_api_response, update_session_result and, when rollup is set,
\* update_analytics()
chat_record(p, success, rollup, f1, f2, f3) ==
    LET rs == log_api_response(NewResponseId(p.request_id), p.request_id,
                               p.session_id, success, f1)
    IN  /\ p \in pending
        /\ f2 # "file" /\ f3 # "file"
        /\ MayFailAll(<<f1, f2, f3>>)
        /\ faults' = faults + NFaults(<<f1, f2, f3>>)
        /\ pending' = pending \ {p}
        /\ api_responses' = rs.api_responses
        /\ response_files' = rs.response_files
        /\ api_sessions' =
               update_session_result(api_sessions, p.session_id, success, f2)
        /\ api_analytics' =
               IF rollup
               THEN update_analytics(rs.api_responses, api_requests, now, f3)
               ELSE api_analytics
        /\ session_log' =
               IF f1 = "db" THEN session_log
               ELSE IF success
               THEN [session_log EXCEPT ![p.session_id].successes = @ + 1]
               ELSE [session_log EXCEPT ![p.session_id].failures = @ + 1]
        /\ UNCHANGED <<now, sweeps, ends, requests_per_minute, served,
                       agent_sessions, api_requests, api_rate_limits,
                       request_files, session_files, cache_files,
                       ever_requests, rl_log, cache_log>>

\* chat, the agent answered (with success true or false): the response is
\* logged, the session updated and the hour's analytics rolled up
chat_success(p, success, f1, f2, f3) ==
    /\ chat_record(p, success, TRUE, f1, f2, f3)
    /\ last' = [op |-> "chat_success", session_id |-> p.session_id,
                raised |-> \/ raises("log_api_response", f1)
                           \/ raises("update_session_result", f2)
                           \/ raises("update_analytics", f3)]

\* chat, the except branch: the error response is logged and the session
\* updated; update_analytics is not called
chat_error(p, f1, f2) ==
    /\ chat_record(p, FALSE, FALSE, f1, f2, "ok")
    /\ last' = [op |-> "chat_error", session_id |-> p.session_id,
                raised |-> \/ raises("log_api_response", f1)
                           \/ raises("update_session_result", f2)]

\* ------------------------------------------------------------ end_session
end_session(session_id, f) ==
    /\ ends < MaxEnds
    /\ ends' = ends + 1
    /\ MayFail(f)
    /\ faults' = Charge(f)
    /\ api_sessions' =
           IF f = "db" THEN api_sessions
           ELSE [i \in 1..Len(api_sessions) |->
                   IF /\ api_sessions[i].session_id = session_id
                      /\ api_sessions[i].is_active
                   THEN [api_sessions[i] EXCEPT !.is_active = FALSE,
                                                !.ended_at = now]
                   ELSE api_sessions[i]]
    /\ session_files' =
           IF f = "ok" /\ session_files[session_id] # NoFile
           THEN [session_files EXCEPT ![session_id] =
                    [@ EXCEPT !.ended_at = now, !.mtime = now]]
           ELSE session_files
    /\ last' = [op |-> "end_session", session_id |-> session_id,
                result |-> (f = "ok"), raised |-> raises("end_session", f)]
    /\ UNCHANGED <<now, sweeps, requests_per_minute, api_requests,
                   api_responses, api_analytics, api_rate_limits,
                   request_files, response_files, cache_files, chatst,
                   rl_log, cache_log>>

\* POST /end_session of api_server.py: the session is dropped from
\* agent_sessions; the handler makes no call to the store
end_session_endpoint(session_id) ==
    /\ ends < MaxEnds
    /\ ends' = ends + 1
    /\ agent_sessions' = agent_sessions \ {session_id}
    /\ last' = [op |-> "end_session_endpoint", session_id |-> session_id,
                success |-> (session_id \in agent_sessions)]
    /\ UNCHANGED <<now, faults, sweeps, requests_per_minute, tables, files, served,
                   pending, ever_requests, session_log, rl_log, cache_log>>

\* ---------------------------------------------------------- response cache
\* The cache file of a key is cache_<md5(key)>.json; md5 is taken to be
\* injective on CacheKeys, so the files are indexed by key.  A payload is a
\* JSON document, which json.dump and json.load give back as it was.
cache_response(cache_key, response_data, ttl_minutes, f) ==
    /\ f \in {"ok", "file"}
    /\ MayFail(f)
    /\ faults' = Charge(f)
    /\ cache_files' =
           IF f = "file" THEN cache_files
           ELSE [cache_files EXCEPT ![cache_key] =
                   [response_data |-> response_data,
                    expires_at    |-> now + ttl_minutes * Minute,
                    mtime         |-> now]]
    /\ cache_log' =
           IF f = "file" THEN cache_log
           ELSE [cache_log EXCEPT ![cache_key] =
                   [response_data |-> response_data, time |-> now,
                    ttl_minutes |-> ttl_minutes, swept |-> FALSE]]
    /\ last' = [op |-> "cache_response", cache_key |-> cache_key,
                result |-> (f = "ok"), raised |-> raises("cache_response", f)]
    /\ UNCHANGED <<now, sweeps, ends, requests_per_minute, tables, request_files,
                   response_files, session_files, chatst, rl_log>>

\* cache_expired comparing with the time of writing instead of expires_at
cache_expired_since_write(cache_key) == now > cache_files[cache_key].mtime

\* datetime.now() > expires_at
cache_expired(cache_key) == now > cache_files[cache_key].expires_at

\* the value get_cached_response returns
cache_lookup(cache_key, f) ==
    IF cache_files[cache_key] = NoFile THEN None
    ELSE IF f = "file" THEN None
    ELSE IF cache_expired(cache_key) THEN None
    ELSE cache_files[cache_key].response_data

\* cache_after_read never unlinking the file
cache_after_read_keep(cache_key, f) == cache_files

\* the cache files get_cached_response leaves: an entry read past its
\* expires_at is unlinked
cache_after_read(cache_key, f) ==
    IF /\ cache_files[cache_key] # NoFile
       /\ f = "ok"
       /\ cache_expired(cache_key)
    THEN [cache_files EXCEPT ![cache_key] = NoFile]   \* cache_file.unlink()
    ELSE cache_files

get_cached_response(cache_key, f) ==
    /\ f \in {"ok", "file"}
    /\ f = "file" => cache_files[cache_key] # NoFile
    /\ MayFail(f)
    /\ faults' = Charge(f)
    /\ cache_files' = cache_after_read(cache_key, f)
    /\ last' = [op |-> "get_cached_response", cache_key |-> cache_key,
                error |-> (f = "file"),
                result |-> cache_lookup(cache_key, f),
                raised |-> raises("get_cached_response", f)]
    /\ UNCHANGED <<now, sweeps, ends, requests_per_minute, tables, request_files,
                   response_files, session_files, chatst, rl_log, cache_log>>

\* ------------------------------------------------------- retention sweeper
\* cutoff_date = datetime.now() - timedelta(days=days_to_keep)
cutoff_date(days_to_keep) == now - days_to_keep * Day

\* purge_by_timestamp without its WHERE clause
purge_by_timestamp_all(rows, cutoff) == {}

\* DELETE FROM api_responses WHERE timestamp < ?  (and api_requests)
purge_by_timestamp(rows, cutoff) == {r \in rows : ~(r.timestamp < cutoff)}

\* purge_sessions without the is_active = FALSE condition
purge_sessions_any(rows, cutoff) ==
    SelectSeq(rows, LAMBDA r : ~(r.created_at < cutoff))

\* DELETE FROM api_sessions WHERE created_at < ? AND is_active = FALSE
purge_sessions(rows, cutoff) ==
    SelectSeq(rows, LAMBDA r : ~(r.created_at < cutoff /\ r.is_active = FALSE))

\* DELETE FROM api_rate_limits WHERE window_end < ?
purge_rate_limits(rows, cutoff) ==
    SelectSeq(rows, LAMBDA r : ~(r.window_end < cutoff))

\* the file loop over requests_dir, responses_dir and cache_dir:
\* unlink when datetime.fromtimestamp(st_mtime) < cutoff_date
purge_files(fs, cutoff) == {x \in fs : ~(x.mtime < cutoff)}

purge_cache(cutoff) ==
    [k \in CacheKeys |->
        IF cache_files[k] # NoFile /\ cache_files[k].mtime < cutoff
        THEN NoFile ELSE cache_files[k]]

\* the files of a directory, and the cache keys, that the loop unlinks
doomed_files(fs, cutoff) == {x \in fs : x.mtime < cutoff}

doomed_cache(cutoff) ==
    {k \in CacheKeys : cache_files[k] # NoFile /\ cache_files[k].mtime < cutoff}

\* at most one of the files fs: the file whose unlink fails, if any
OneOrNone(fs) == {{}} \cup {{x} : x \in fs}

\* cleanup_old_data.  A database fault ("db") fails a statement of the
\* outer try: nothing is committed, the file loop is not reached and
\* {"error": ...} is returned.  A file fault ("file") fails the unlink of
\* one file inside the loop's own try: the file stays, errors is counted
\* and the loop goes on.
cleanup_old_data(days_to_keep, f) ==
    LET cutoff == cutoff_date(days_to_keep)
    IN  /\ sweeps < MaxSweeps
        /\ sweeps' = sweeps + 1
        /\ MayFail(f)
        /\ faults' = Charge(f)
        /\ IF f = "db"
           THEN \* except: return {"error": str(e)}; nothing was committed
                /\ UNCHANGED <<tables, files, cache_log>>
                /\ last' = [op |-> "cleanup_old_data",
                            days_to_keep |-> days_to_keep, error |-> TRUE,
                            deleted_records |-> 0, deleted_files |-> 0,
                            errors |-> 0,
                            raised |-> raises("cleanup_old_data", f)]
           ELSE \E sq \in OneOrNone(doomed_files(request_files, cutoff)),
                   sr \in OneOrNone(doomed_files(response_files, cutoff)),
                   sc \in OneOrNone(doomed_cache(cutoff)) :
                /\ Cardinality(sq) + Cardinality(sr) + Cardinality(sc)
                       = (IF f = "file" THEN 1 ELSE 0)
                /\ api_responses' = purge_by_timestamp(api_responses, cutoff)
                /\ api_requests' = purge_by_timestamp(api_requests, cutoff)
                /\ api_sessions' = purge_sessions(api_sessions, cutoff)
                /\ api_rate_limits' = purge_rate_limits(api_rate_limits, cutoff)
                /\ request_files' = purge_files(request_files, cutoff) \cup sq
                /\ response_files' = purge_files(response_files, cutoff) \cup sr
                /\ cache_files' =
                       [k \in CacheKeys |->
                           IF k \in sc THEN cache_files[k]
                           ELSE purge_cache(cutoff)[k]]
                /\ cache_log' =
                       [k \in CacheKeys |->
                           IF cache_log[k] # NoFile /\ k \in doomed_cache(cutoff)
                              /\ k \notin sc
                           THEN [cache_log[k] EXCEPT !.swept = TRUE]
                           ELSE cache_log[k]]
                /\ last' = [op |-> "cleanup_old_data",
                            days_to_keep |-> days_to_keep, error |-> FALSE,
                            deleted_records |->
                                (Cardinality(api_responses)
                                   - Cardinality(purge_by_timestamp(api_responses, cutoff)))
                                + (Cardinality(api_requests)
                                   - Cardinality(purge_by_timestamp(api_requests, cutoff)))
                                + (Len(api_sessions)
                                   - Len(purge_sessions(api_sessions, cutoff)))
                                + (Len(api_rate_limits)
                                   - Len(purge_rate_limits(api_rate_limits, cutoff))),
                            deleted_files |->
                                Cardinality(doomed_files(request_files, cutoff) \ sq)
                                + Cardinality(doomed_files(response_files, cutoff) \ sr)
                                + Cardinality(doomed_cache(cutoff) \ sc),
                            errors |->
                                Cardinality(sq) + Cardinality(sr) + Cardinality(sc),
                            raised |-> raises("cleanup_old_data", f)]
                /\ UNCHANGED <<api_analytics, session_files>>
        /\ UNCHANGED <<now, ends, requests_per_minute, chatst, rl_log>>

\* ------------------------------------------------------------------ clock
Tick ==
    /\ now < MaxTime
    /\ now' = now + 1
    /\ last' = [op |-> "tick"]
    /\ UNCHANGED <<faults, sweeps, ends, requests_per_minute, tables, files,
                   chatst, rl_log, cache_log>>

\* the clock, a day later: the sweeper runs on an operator's schedule, days
\* apart
TickDay ==
    /\ now + Day <= MaxSweepDays * Day
    /\ now' = now + Day
    /\ last' = [op |-> "tick"]
    /\ UNCHANGED <<faults, sweeps, ends, requests_per_minute, tables, files,
                   chatst, rl_log, cache_log>>

\* --------------------------------------------------------- specifications
\* the state after APIStorageManager() on an empty api_storage directory
InitStore ==
    /\ now = 0
    /\ sweeps = 0
    /\ ends = 0
    /\ served = 0
    /\ api_requests = {}
    /\ api_responses = {}
    /\ api_sessions = <<>>
    /\ api_analytics = {}
    /\ api_rate_limits = <<>>
    /\ request_files = {}
    /\ response_files = {}
    /\ session_files = [s \in Sessions |-> NoFile]
    /\ cache_files = [k \in CacheKeys |-> NoFile]
    /\ pending = {}
    /\ agent_sessions = {}
    /\ rl_log = <<>>
    /\ ever_requests = {}
    /\ session_log = [s \in Sessions |->
                         [requests |-> 0, successes |-> 0, failures |-> 0]]
    /\ cache_log = [k \in CacheKeys |-> NoFile]
    /\ last = [op |-> "init"]

Init ==
    /\ InitStore
    /\ faults = 0
    /\ requests_per_minute = MaxLimit

\* the same store, with the fault budget spent: no operation fails
InitNoFaults ==
    /\ InitStore
    /\ faults = MaxFaults
    /\ requests_per_minute = MaxLimit

InitRate ==
    /\ InitStore
    /\ faults = 0
    /\ requests_per_minute \in Limits

ChatRequest ==
    \E s \in Sessions, f1 \in Faults, f2 \in Faults : chat_request(s, f1, f2)

ChatSuccess ==
    \E p \in pending, ok \in BOOLEAN, f1 \in Faults, f2 \in Faults, f3 \in Faults :
        chat_success(p, ok, f1, f2, f3)

ChatError ==
    \E p \in pending, f1 \in Faults, f2 \in Faults : chat_error(p, f1, f2)

Rollup ==
    \E t \in 0..now, f \in Faults : update_analytics_call(t, f)

EndSession ==
    \E s \in Sessions, f \in Faults : end_session(s, f)

EndSessionEndpoint ==
    \E s \in Sessions : end_session_endpoint(s)

Cleanup ==
    \E d \in DaysToKeep, f \in Faults : cleanup_old_data(d, f)

RateLimitCall ==
    \E ip \in Ips, ep \in Endpoints, f \in Faults :
        check_rate_limit(ip, ep, requests_per_minute, f)

CachePut ==
    \E k \in CacheKeys, d \in Payloads, t \in Ttls, f \in Faults :
        cache_response(k, d, t, f)

CacheGet ==
    \E k \in CacheKeys, f \in Faults : get_cached_response(k, f)

\* the /chat handlers under storage faults
Next == ChatRequest \/ ChatSuccess \/ ChatError \/ Tick

Spec == Init /\ [][Next]_vars

\* the store under retention sweeps, days apart: answered /chat requests,
\* session ends, a rate-limit check, purges
FirstRateLimitCall == rl_log = <<>> /\ RateLimitCall
FirstEndSession == ends = 0 /\ EndSession

NextSweep ==
    \/ ChatRequest \/ ChatSuccess \/ FirstEndSession
    \/ FirstRateLimitCall \/ Cleanup \/ TickDay

SpecSweep == InitNoFaults /\ [][NextSweep]_vars

\* the rate limiter and the sweeper
NextRate == RateLimitCall \/ Cleanup \/ Tick

SpecRate == InitRate /\ [][NextRate]_vars

\* the /chat handlers and the hourly rollup
NextAnalytics == ChatRequest \/ ChatSuccess \/ ChatError \/ Rollup \/ Tick

SpecAnalytics == InitNoFaults /\ [][NextAnalytics]_vars

\* the life of sessions: /chat requests, ends by the store's end_session
\* and by the server's /end_session
NextSession ==
    ChatRequest \/ ChatSuccess \/ EndSession \/ EndSessionEndpoint \/ Tick

SpecSession == InitNoFaults /\ [][NextSession]_vars

\* the response cache and the sweeper
NextCache == CachePut \/ CacheGet \/ Cleanup \/ Tick

SpecCache == Init /\ [][NextCache]_vars

\* every operation of the store under storage faults, one component per
\* run (the /chat handler and the session end, the rate limiter, or the
\* response cache), each with the sweeper, days apart
ChatIdle  == served = 0 /\ ends = 0
RateIdle  == rl_log = <<>>
CacheIdle == \A k \in CacheKeys : cache_files[k] = NoFile /\ cache_log[k] = NoFile

StoreChat  == RateIdle /\ CacheIdle /\ (ChatRequest \/ ChatSuccess \/ ChatError)
StoreEnd   == RateIdle /\ CacheIdle /\ FirstEndSession
StoreRate  == ChatIdle /\ CacheIdle /\ RateLimitCall
StoreCache == ChatIdle /\ RateIdle /\ (CachePut \/ CacheGet)

NextStore == StoreChat \/ StoreEnd \/ StoreRate \/ StoreCache \/ Cleanup \/ TickDay

SpecStore == Init /\ [][NextStore]_vars

\* ================================================================ claims
\* the calls made so far for one (client address, endpoint) key, in order
KeyCalls(ip, endpoint) ==
    SelectSeq(rl_log, LAMBDA c : c.ip_address = ip /\ c.endpoint = endpoint)

NoError(cs) == \A i \in 1..Len(cs) : ~cs[i].error

\* C1: for any key and any limit L >= 1, L calls to check_rate_limit made
\* within one 60-second window are all admitted, and the (L+1)-th call in
\* that window is rejected with blocked = true.  Stated over the keys whose
\* calls so far all fall within less than a minute and hit no storage error:
\* the i-th call is admitted when i <= L, and rejected and blocked when
\* i = L + 1.
C1_LimitCallsAdmitted ==
    \A ip \in Ips, ep \in Endpoints :
        LET cs == KeyCalls(ip, ep)
        IN  (/\ Len(cs) > 0
             /\ NoError(cs)
             /\ cs[Len(cs)].time - cs[1].time < Minute)
            => \A i \in 1..Len(cs) :
                   /\ i <= cs[i].limit => cs[i].allowed
                   /\ i = cs[i].limit + 1 => (~cs[i].allowed /\ cs[i].blocked)

\* the start of the fixed 60-second window that the i-th call of cs falls
\* in: the first call opens a window, and a call made more than a minute
\* after the start of the current window opens the next one
RECURSIVE FixedWindowStart(_, _)
FixedWindowStart(cs, i) ==
    IF i = 1 THEN cs[1].time
    ELSE LET w == FixedWindowStart(cs, i - 1)
         IN  IF cs[i].time - w > Minute THEN cs[i].time ELSE w

SessionRows(rows, session_id) ==
    {i \in 1..Len(rows) : rows[i].session_id = session_id}

HasPending(session_id) == \E p \in pending : p.session_id = session_id

\* C3: the counters of a Session Record equal what was recorded under its
\* session id: total_requests the requests logged, successful_requests and
\* failed_requests the outcomes logged, and total = successful + failed once
\* every request has its outcome.  Stated for the runs without storage fault.
C3_SessionCountersMatch ==
    faults = 0 =>
    \A i \in 1..Len(api_sessions) :
        LET r  == api_sessions[i]
            lg == session_log[r.session_id]
        IN  /\ r.total_requests = lg.requests
            /\ r.successful_requests = lg.successes
            /\ r.failed_requests = lg.failures
            /\ ~HasPending(r.session_id) =>
                   r.total_requests = r.successful_requests + r.failed_requests

\* C4: every stored Response Record's request_id is the id of a Request
\* Record that was stored before the response was logged.
C4_ResponseRefersToStoredRequest ==
    \A r \in api_responses : r.request_id \in ever_requests

\* C6: every stored Analytics Bucket equals the aggregation of the Response
\* Records stored for its (date, hour).  Stated for the runs without storage
\* fault.
C6_BucketEqualsAggregate ==
    faults = 0 =>
    \A b \in api_analytics :
        LET a == aggregate(api_responses, api_requests, b.date, b.hour)
        IN  /\ b.total_requests = a.total_requests
            /\ b.successful_requests = a.successful_requests
            /\ b.failed_requests = a.failed_requests

\* C10: create_or_update_session never leaves two Session Records for one
\* id; a call that returns TRUE creates the record when the id has none and
\* otherwise sets last_activity and adds one to total_requests of the one
\* record, leaving the other records as they were.
C10_Step ==
    /\ \A s \in Sessions : Cardinality(SessionRows(api_sessions', s)) <= 1
    /\ (/\ served' = served + 1
        /\ last'.op = "chat_request"
        /\ last'.session_ok)
       => LET s  == last'.session_id
              is == SessionRows(api_sessions, s)
          IN  IF is = {}
              THEN /\ Len(api_sessions') = Len(api_sessions) + 1
                   /\ Cardinality(SessionRows(api_sessions', s)) = 1
                   /\ \A i \in 1..Len(api_sessions) :
                          api_sessions'[i] = api_sessions[i]
              ELSE /\ Len(api_sessions') = Len(api_sessions)
                   /\ \A i \in 1..Len(api_sessions) :
                          api_sessions'[i] =
                              IF i \in is
                              THEN [api_sessions[i] EXCEPT
                                       !.last_activity = now,
                                       !.total_requests = @ + 1]
                              ELSE api_sessions[i]

C10_UpsertNeverDuplicates == [][C10_Step]_vars

\* C10 witness: a second call for a session id has just updated its record
C10_Witness ==
    /\ last.op = "chat_request"
    /\ last.session_ok
    /\ \E i \in 1..Len(api_sessions) :
           /\ api_sessions[i].session_id = last.session_id
           /\ api_sessions[i].total_requests >= 1
           /\ api_sessions[i].last_activity > api_sessions[i].created_at

\* C5: a read of a key made before the T minutes of its latest write have
\* elapsed returns the payload written, and a read made after they have
\* elapsed returns None.  The first half is stated for the entries no sweep
\* has removed since the write, both for the reads without storage fault.
C5_CacheTtl ==
    (/\ last.op = "get_cached_response"
     /\ ~last.error
     /\ cache_log[last.cache_key] # NoFile)
    => LET w   == cache_log[last.cache_key]
           age == now - w.time
       IN  /\ (age < w.ttl_minutes * Minute /\ ~w.swept)
                  => last.result = w.response_data
           /\ age > w.ttl_minutes * Minute => last.result = None

\* C5 witness: a read some time after the write, before the TTL has elapsed,
\* returned the payload
C5_Witness ==
    /\ last.op = "get_cached_response"
    /\ cache_log[last.cache_key] # NoFile
    /\ now - cache_log[last.cache_key].time > 0
    /\ now - cache_log[last.cache_key].time
           < cache_log[last.cache_key].ttl_minutes * Minute
    /\ last.result = cache_log[last.cache_key].response_data

\* the step is a cleanup_old_data call that returned its stats
SweepDone ==
    /\ sweeps' = sweeps + 1
    /\ last'.op = "cleanup_old_data"
    /\ ~last'.error

\* C7: cleanup_old_data(D) deletes every request and response whose
\* timestamp, every rate-limit row whose window_end and every inactive
\* session whose created_at is older than now minus D days, and leaves every
\* record newer than that cutoff as it was.
C7_Step ==
    SweepDone =>
    LET cutoff == now - last'.days_to_keep * Day
    IN  /\ \A r \in api_requests :
               /\ r.timestamp < cutoff => r \notin api_requests'
               /\ r.timestamp > cutoff => r \in api_requests'
        /\ \A r \in api_responses :
               /\ r.timestamp < cutoff => r \notin api_responses'
               /\ r.timestamp > cutoff => r \in api_responses'
        /\ api_requests' \subseteq api_requests
        /\ api_responses' \subseteq api_responses
        /\ SelectSeq(api_rate_limits', LAMBDA r : r.window_end < cutoff) = <<>>
        /\ SelectSeq(api_rate_limits', LAMBDA r : r.window_end > cutoff)
               = SelectSeq(api_rate_limits, LAMBDA r : r.window_end > cutoff)
        /\ SelectSeq(api_sessions',
                     LAMBDA r : r.created_at < cutoff /\ ~r.is_active) = <<>>
        /\ SelectSeq(api_sessions', LAMBDA r : r.created_at > cutoff)
               = SelectSeq(api_sessions, LAMBDA r : r.created_at > cutoff)
        /\ api_analytics' = api_analytics

C7_PurgeByCutoff == [][C7_Step]_vars

\* C7 witness: cleanup_old_data(1) has deleted records older than a day and
\* left a request, an inactive session and a rate-limit row that are newer
C7_Witness ==
    /\ last.op = "cleanup_old_data"
    /\ ~last.error
    /\ last.days_to_keep = 1
    /\ last.deleted_records >= 2
    /\ \E r \in api_requests : r.timestamp > now - Day
    /\ \E i \in 1..Len(api_sessions) :
           ~api_sessions[i].is_active /\ api_sessions[i].created_at > now - Day
    /\ Len(api_rate_limits) > 0

\* C8: after cleanup_old_data(0) the Structured Store holds no record other
\* than active Session Records.  Stated leaving aside the records written at
\* the very instant of the sweep: every table is empty of older records, and
\* no inactive session remains.
C8_PurgeZeroEmptiesStore ==
    (/\ last.op = "cleanup_old_data"
     /\ ~last.error
     /\ last.days_to_keep = 0)
    => /\ \A r \in api_requests : r.timestamp = now
       /\ \A r \in api_responses : r.timestamp = now
       /\ \A i \in 1..Len(api_rate_limits) :
              api_rate_limits[i].window_start = now
       /\ \A b \in api_analytics :
              b.date = DateOf(now) /\ b.hour = HourOf(now)
       /\ \A i \in 1..Len(api_sessions) :
              api_sessions[i].is_active \/ api_sessions[i].created_at = now

\* C9: a Session Record whose active flag is set is never deleted by
\* cleanup_old_data, whatever its age and whatever days_to_keep is.
C9_Step ==
    (sweeps' = sweeps + 1 /\ last'.op = "cleanup_old_data")
    => \A i \in 1..Len(api_sessions) :
           api_sessions[i].is_active
           => \E j \in 1..Len(api_sessions') :
                  api_sessions'[j] = api_sessions[i]

C9_ActiveSessionsKept == [][C9_Step]_vars

\* C9 witness: cleanup_old_data(0) has deleted an ended session and other
\* records while an active session created days before is still stored
C9_Witness ==
    /\ last.op = "cleanup_old_data"
    /\ ~last.error
    /\ last.days_to_keep = 0
    /\ last.deleted_records >= 2
    /\ Len(api_sessions) = 1
    /\ api_sessions[1].is_active
    /\ api_sessions[1].created_at < now
    /\ session_files[CHOOSE s \in Sessions : s # api_sessions[1].session_id]
           # NoFile

\* the step is a call of the store's end_session for session s that
\* returned True
EndSessionDone(s) ==
    /\ ends' = ends + 1
    /\ last'.op = "end_session"
    /\ last'.session_id = s
    /\ last'.result

\* C11: end_session on a session that has already been ended is a no-op:
\* the Session Record (active flag, end time) and the archived snapshot of
\* the session stay exactly as the first call left them.  Stated for the
\* sessions whose first end_session went through: the record is inactive
\* and the snapshot carries the record's end time.
C11_Step ==
    \A s \in Sessions :
        (/\ EndSessionDone(s)
         /\ session_files[s] # NoFile
         /\ \E i \in 1..Len(api_sessions) :
                /\ api_sessions[i].session_id = s
                /\ ~api_sessions[i].is_active
                /\ session_files[s].ended_at = api_sessions[i].ended_at)
        => /\ api_sessions' = api_sessions
           /\ session_files'[s] = session_files[s]

C11_EndSessionIdempotent == [][C11_Step]_vars

\* C12: once a session has been ended through the service's /end_session
\* operation, and the service reported success, its Session Record is
\* stored, inactive and carries an end time.
C12_EndpointMarksInactive ==
    (last.op = "end_session_endpoint" /\ last.success)
    => \E i \in 1..Len(api_sessions) :
           /\ api_sessions[i].session_id = last.session_id
           /\ ~api_sessions[i].is_active
           /\ api_sessions[i].ended_at # NoTime

\* C16: update_analytics(t) invoked a second time for the same hour, no
\* record having been written in between, changes nothing: the one bucket
\* of that (date, hour) is the bucket the first invocation left.
C16_RollupIdempotent ==
    (/\ last.op = "update_analytics"
     /\ ~last.error
     /\ last.repeat)
    => /\ ~last.changed
       /\ Cardinality(BucketsOf(api_analytics, last.date, last.hour)) = 1

\* C16 witness: the rollup of an hour with responses was run twice in a row
C16_Witness ==
    /\ last.op = "update_analytics"
    /\ ~last.error
    /\ last.repeat
    /\ \E b \in BucketsOf(api_analytics, last.date, last.hour) :
           b.total_requests >= 1

\* the records of a table stored in the hour `hour` of the day `date`
StoredInHour(rows, date, hour) ==
    {r \in rows : /\ r.timestamp \div Day = date
                  /\ (r.timestamp \div Hour) % HoursPerDay = hour}

\* C17: immediately after update_analytics(t) the bucket of the (date,
\* hour) containing t counts the Response Records stored in that hour
\* (total, those with success true, those with success false) and the
\* distinct session ids among the Request Records of that hour.
C17_BucketCountsStoredRecords ==
    (last.op = "update_analytics" /\ ~last.error)
    => \E b \in api_analytics :
           LET rs == StoredInHour(api_responses, last.date, last.hour)
               rq == StoredInHour(api_requests, last.date, last.hour)
           IN  /\ b.date = last.date
               /\ b.hour = last.hour
               /\ b.total_requests = Cardinality(rs)
               /\ b.successful_requests = Cardinality({r \in rs : r.success})
               /\ b.failed_requests = Cardinality({r \in rs : ~r.success})
               /\ b.unique_sessions =
                      Cardinality({r.session_id : r \in rq})

\* C17 witness: the rollup of an hour holding a successful and a failed
\* response of two sessions, while another hour holds records too
C17_Witness ==
    /\ last.op = "update_analytics"
    /\ ~last.error
    /\ \E b \in BucketsOf(api_analytics, last.date, last.hour) :
           /\ b.successful_requests = 1
           /\ b.failed_requests = 1
    /\ \E r \in api_requests :
           ~(DateOf(r.timestamp) = last.date /\ HourOf(r.timestamp) = last.hour)

\* the operations of the model that call the store
StoreCallers ==
    {"chat_request", "chat_success", "chat_error", "end_session",
     "update_analytics", "check_rate_limit", "cache_response",
     "get_cached_response", "cleanup_old_data"}

C14_ReturnedIdIsStored ==
    last.op = "chat_request"
    => \E r \in api_requests : r.request_id = last.request_id

\* C15: a failure while writing a snapshot file does not keep the record
\* from being committed: after a /chat request whose request snapshot could
\* not be written the Request Record is stored, and after one whose session
\* snapshot could not be written the Session Record is stored.
C15_SnapshotFailureKeepsRecord ==
    last.op = "chat_request"
    => /\ last.request_fault = "file"
              => \E r \in api_requests : r.request_id = last.request_id
       /\ last.session_fault = "file"
              => \E i \in 1..Len(api_sessions) :
                     api_sessions[i].session_id = last.session_id

\* the calls among the first i of cs that were admitted within the minute
\* before the i-th call, that call included
AdmittedInWindow(cs, i) ==
    {j \in 1..i : cs[j].allowed /\ cs[i].time - cs[j].time <= Minute}

\* C18: a check_rate_limit call that hits no storage error returns the
\* limit it was given and, as current count, the number of calls admitted
\* for its key in the 60 seconds up to the call, the call itself counted
\* when it is admitted.  Stated for the keys none of whose calls hit a
\* storage error.
C18_InfoCountsAdmittedCalls ==
    \A ip \in Ips, ep \in Endpoints :
        LET cs == KeyCalls(ip, ep)
        IN  NoError(cs) =>
            \A i \in 1..Len(cs) :
                /\ cs[i].limit = requests_per_minute
                /\ cs[i].current_requests = Cardinality(AdmittedInWindow(cs, i))

\* C19: a check_rate_limit call whose counting update could not be applied
\* because of a storage error is reported as not admitted.
C19_FailedUpdateNotAdmitted ==
    \A i \in 1..Len(rl_log) : rl_log[i].error => ~rl_log[i].allowed

\* the expiry time of the entry last written under a key
ExpiryOf(cache_key) ==
    cache_log[cache_key].time + cache_log[cache_key].ttl_minutes * Minute

\* C20: get_cached_response expires lazily.  A read (without storage fault)
\* of an entry made up to its expiry time returns the payload and leaves
\* the entry in place; a read made after the expiry time deletes the entry
\* and returns None; a read of a key that has no entry returns None and
\* creates none.
C20_Step ==
    (last'.op = "get_cached_response" /\ ~last'.error)
    => LET k == last'.cache_key
       IN  IF cache_files[k] = NoFile
           THEN /\ last'.result = None
                /\ cache_files' = cache_files
           ELSE IF now <= ExpiryOf(k)
           THEN /\ last'.result = cache_log[k].response_data
                /\ cache_files' = cache_files
           ELSE /\ last'.result = None
                /\ cache_files'[k] = NoFile

C20_LazyExpiry == [][C20_Step]_vars

\* C20 witness: an entry written with a TTL of a minute or more has been
\* read after its expiry time: the read returned None and the entry, which
\* no sweep removed, is gone
C20_Witness ==
    /\ last.op = "get_cached_response"
    /\ ~last.error
    /\ last.result = None
    /\ cache_log[last.cache_key] # NoFile
    /\ cache_log[last.cache_key].ttl_minutes >= 1
    /\ ~cache_log[last.cache_key].swept
    /\ now > ExpiryOf(last.cache_key)
    /\ cache_files[last.cache_key] = NoFile

\* C21: the deletions of cleanup_old_data are independent.  Whatever
\* failure the call meets, it returns the counts of deleted records and
\* files with the errors met, every record older than the cutoff has been
\* deleted (requests and responses by timestamp), and of the request,
\* response and cache files older than the cutoff only those whose own
\* deletion failed are left.
C21_SweepDeletionsIndependent ==
    last.op = "cleanup_old_data"
    => LET cutoff == now - last.days_to_keep * Day
       IN  /\ ~last.error
           /\ \A r \in api_requests \cup api_responses : ~(r.timestamp < cutoff)
           /\ Cardinality({x \in request_files : x.mtime < cutoff})
              + Cardinality({x \in response_files : x.mtime < cutoff})
              + Cardinality({k \in CacheKeys :
                     cache_files[k] # NoFile /\ cache_files[k].mtime < cutoff})
              = last.errors

\* C22: after cleanup_old_data (no deletion having failed) no request,
\* response or session snapshot file and no cache file is left whose
\* modification time predates the cutoff.
C22_OldFilesDeleted ==
    (last.op = "cleanup_old_data" /\ ~last.error /\ last.errors = 0)
    => LET cutoff == now - last.days_to_keep * Day
       IN  /\ \A x \in request_files : ~(x.mtime < cutoff)
           /\ \A x \in response_files : ~(x.mtime < cutoff)
           /\ \A k \in CacheKeys :
                  cache_files[k] # NoFile => ~(cache_files[k].mtime < cutoff)
           /\ \A s \in Sessions :
                  session_files[s] # NoFile => ~(session_files[s].mtime < cutoff)

\* C23: whatever the other callers of check_rate_limit do, the number of
\* calls admitted for a key within any 60 seconds never exceeds the limit:
\* no admitted call is the (limit + 1)-th admitted one of the minute that
\* ends with it.
C23_AdmittedWithinLimit ==
    \A ip \in Ips, ep \in Endpoints :
        LET cs == KeyCalls(ip, ep)
        IN  \A i \in 1..Len(cs) :
                cs[i].allowed
                => Cardinality(AdmittedInWindow(cs, i)) <= requests_per_minute

\* C24: a key has at most one live Rate-Limit Window record (one whose
\* window_end has not passed) at any time.
C24_OneLiveWindowPerKey ==
    \A ip \in Ips, ep \in Endpoints :
        Cardinality({i \in 1..Len(api_rate_limits) :
                        /\ api_rate_limits[i].ip_address = ip
                        /\ api_rate_limits[i].endpoint = ep
                        /\ api_rate_limits[i].window_end >= now}) <= 1

\* C25: a /chat request that the service has logged and passed to the agent
\* was preceded by a check_rate_limit call for the /chat endpoint that
\* returned admitted.
C25_ChatPrecededByAdmission ==
    last.op = "chat_request"
    => \E i \in 1..Len(rl_log) :
           rl_log[i].endpoint = "/chat" /\ rl_log[i].allowed

\* C26: once the handlers that ran for a session id, in any interleaving,
\* have all returned, there is exactly one Session Record for the id, its
\* total_requests is the number N of create_or_update_session calls and its
\* successful_requests and failed_requests add up to the number M of
\* update_session_result calls.  Stated for the runs without storage fault.
C26_NoLostSessionUpdate ==
    (faults = 0 /\ pending = {})
    => \A s \in Sessions :
           session_log[s].requests > 0
           => /\ Cardinality(SessionRows(api_sessions, s)) = 1
              /\ \A i \in SessionRows(api_sessions, s) :
                     /\ api_sessions[i].total_requests = session_log[s].requests
                     /\ api_sessions[i].successful_requests
                            + api_sessions[i].failed_requests
                        = session_log[s].successes + session_log[s].failures

\* C27: a read of a key made before the T minutes of its latest write have
\* elapsed returns the payload written, whatever cleanup_old_data calls were
\* made in between.
C27_SweepKeepsUnexpiredEntries ==
    (/\ last.op = "get_cached_response"
     /\ ~last.error
     /\ cache_log[last.cache_key] # NoFile
     /\ now < ExpiryOf(last.cache_key))
    => last.result = cache_log[last.cache_key].response_data

\* C28: after a purge every Response Record still stored refers to a
\* Request Record that is still stored.
C28_PurgeKeepsReferences ==
    (last.op = "cleanup_old_data" /\ ~last.error)
    => \A r \in api_responses :
           \E q \in api_requests : q.request_id = r.request_id

\* the window rows a key would hold after the first i of its calls cs if no
\* other key were ever checked: a call that hit no storage error and found
\* the counts of the key's rows of the last minute summing to less than
\* its limit adds a row
RECURSIVE OwnRows(_, _)
OwnRows(cs, i) ==
    IF i = 0 THEN <<>>
    ELSE LET prev == OwnRows(cs, i - 1)
             live == SelectSeq(prev,
                         LAMBDA r : r.window_start >= cs[i].time - Minute)
         IN  IF cs[i].error \/ ~(SumCounts(live) < cs[i].limit)
             THEN prev
             ELSE Append(prev,
                         [window_start  |-> cs[i].time,
                          request_count |->
                              (IF Len(live) > 0 THEN live[1].request_count
                               ELSE 0) + 1])

\* the count the i-th call of cs would find on those rows
OwnCount(cs, i) ==
    SumCounts(SelectSeq(OwnRows(cs, i - 1),
                        LAMBDA r : r.window_start >= cs[i].time - Minute))

\* C29: rate limiting is isolated per key.  The admission outcome and the
\* reported count of every call are those the calls of its own key alone
\* determine, whatever calls were made for other keys before it, admitted
\* or rejected; a call that hit a storage error is admitted with no count.
C29_KeysAreIsolated ==
    \A ip \in Ips, ep \in Endpoints :
        LET cs == KeyCalls(ip, ep)
        IN  \A i \in 1..Len(cs) :
                IF cs[i].error
                THEN cs[i].allowed /\ cs[i].current_requests = 0
                ELSE /\ cs[i].allowed = (OwnCount(cs, i) < cs[i].limit)
                     /\ cs[i].current_requests =
                            OwnCount(cs, i) + (IF cs[i].allowed THEN 1 ELSE 0)

\* C29 witness: a key was rejected and, at the same instant, a call for
\* another key was admitted with a count of 1
C29_Witness ==
    \E i, j \in 1..Len(rl_log) :
        /\ i < j
        /\ rl_log[i].ip_address # rl_log[j].ip_address
        /\ ~rl_log[i].error /\ ~rl_log[i].allowed
        /\ rl_log[j].time = rl_log[i].time
        /\ ~rl_log[j].error /\ rl_log[j].allowed
        /\ rl_log[j].current_requests = 1

\* a window row without its is_blocked flag
Quota(r) ==
    [ip_address |-> r.ip_address, endpoint |-> r.endpoint,
     request_count |-> r.request_count,
     window_start |-> r.window_start, window_end |-> r.window_end]

\* C30: a rejected check_rate_limit call consumes no quota.  It leaves the
\* key, the request_count and the window times of every window record as
\* they were, the records that ended more than a minute ago being
\* discarded; only is_blocked may change.
C30_Step ==
    (/\ Len(rl_log') = Len(rl_log) + 1
     /\ ~rl_log'[Len(rl_log')].error
     /\ ~rl_log'[Len(rl_log')].allowed)
    => LET kept == SelectSeq(api_rate_limits,
                       LAMBDA r : ~(r.window_end < now - Minute))
       IN  /\ Len(api_rate_limits') = Len(kept)
           /\ \A i \in 1..Len(kept) :
                  Quota(api_rate_limits'[i]) = Quota(kept[i])

C30_RejectedCallKeepsQuota == [][C30_Step]_vars

\* C30 witness: a key was admitted, rejected later in the same minute, and
\* admitted again less than a minute after the rejected call, as soon as
\* more than a minute had passed since the admitted one
C30_Witness ==
    \E ip \in Ips, ep \in Endpoints :
        LET cs == KeyCalls(ip, ep)
        IN  \E i \in 1..Len(cs), j \in 1..Len(cs), k \in 1..Len(cs) :
                /\ i < j /\ j < k
                /\ NoError(cs)
                /\ cs[i].allowed /\ ~cs[j].allowed /\ cs[k].allowed
                /\ cs[j].time > cs[i].time
                /\ cs[k].time - cs[j].time < Minute
                /\ cs[k].current_requests = 1

====
